---------------------------- MODULE Spec2Model ----------------------------
(***************************************************************************)
(* A model of pywoudc (src/pywoudc/__init__.py): the WoudcClient.get_data  *)
(* query-construction / pagination / sort logic and the date2string        *)
(* helper.  The remote WFS server (owslib's getfeature) is the             *)
(* environment: each page request is answered nondeterministically.        *)
(***************************************************************************)
EXTENDS Integers, Sequences, FiniteSets, TLC

VARIABLES
    maxfeatures,         \* self.maxfeatures (set by __init__)
    pc,                  \* "idle" | "fetch" (inside the while loop) | "done"
                         \* (the one call of this run has ended)
    kwargs,              \* the keyword arguments of the running get_data call
    variables,           \* get_data local: propertyname sent to the server
    filter_string,       \* get_data local: the filter sent to the server
    sort_property,       \* get_data local
    sort_descending,     \* get_data local
    startindex,          \* get_data local
    feature_collection,  \* get_data local: None or the accumulated dict
    requests,            \* the getfeature calls issued so far (the spy)
    responses,           \* what the server answered to each of them
    server,              \* the server's matching data set for this query
    result,              \* how the call ended: a return value or an exception
    typename,            \* the dataset name of the running call
    d2s,                 \* the last direct date2string call: input and outcome
    d2s_again,           \* date2string applied to the result of that call
    call2                \* the locals of a second get_data call that runs
                         \* on the same client at the same time

vars == <<maxfeatures, pc, typename, kwargs, variables, filter_string, sort_property,
          sort_descending, startindex, feature_collection, requests,
          responses, server, result, d2s, d2s_again, call2>>

---------------------------------------------------------------------------
(* Bounds of the model                                                     *)

\* the server's result set for one query holds at most MaxTotal features
MaxTotal == 3
\* at most MaxRequests page requests are followed in one call
MaxRequests == 4
\* DefaultMaxFeatures values the server may advertise: -1..MaxLimit
MaxLimit == 2

---------------------------------------------------------------------------
(* Python values                                                           *)

PyNone == [type |-> "NoneType"]
\* a keyword that the caller did not pass
Absent == [type |-> "<absent>"]
\* the value of a call that raised
NoValue == [type |-> "<no value>"]
PyStr(s) == [type |-> "str", s |-> s]
PyInt(n) == [type |-> "int", n |-> n]
PyList(items) == [type |-> "list", items |-> items]
PyDate(y, m, d) == [type |-> "date", y |-> y, m |-> m, d |-> d]
PyDateTime(y, m, d, hh, mm, ss) ==
    [type |-> "datetime", y |-> y, m |-> m, d |-> d,
     hh |-> hh, mm |-> mm, ss |-> ss]

\* isinstance(v, cls): datetime.datetime is a subclass of datetime.date
isinstance(v, cls) ==
    \/ v.type = cls
    \/ cls = "date" /\ v.type = "datetime"

\* how a call ends
Return(v) == [exc |-> "none", value |-> v]
Raise(e) == [exc |-> e, value |-> NoValue]

Digits == <<"0", "1", "2", "3", "4", "5", "6", "7", "8", "9">>
Digit(n) == Digits[n + 1]
\* zero-padded decimal rendering, as strftime's %m %d %H %M %S and %Y
Pad2(n) == Digit((n \div 10) % 10) \o Digit(n % 10)
Pad4(n) == Pad2(n \div 100) \o Pad2(n % 100)

\* dateval.strftime('%Y-%m-%d')
strftime_date(v) == Pad4(v.y) \o "-" \o Pad2(v.m) \o "-" \o Pad2(v.d)
\* dateval.strftime('%Y-%m-%d %H:%M:%S')
strftime_datetime(v) ==
    strftime_date(v) \o " " \o Pad2(v.hh) \o ":" \o Pad2(v.mm) \o ":" \o Pad2(v.ss)

---------------------------------------------------------------------------
(* date2string                                                             *)

\* the two default times exchanged
default_time_swapped(direction) ==
    IF direction = "begin" THEN "23:59:59"
    ELSE IF direction = "end" THEN "00:00:00"
    ELSE ""

\* lines 313-318: the time of day a bare date gets ("" when the direction
\* is rejected)
default_time(direction) ==
    IF direction = "begin" THEN "00:00:00"
    ELSE IF direction = "end" THEN "23:59:59"
    ELSE ""

\* a string branch that appends the default time to every string of 10
\* characters or more
date2string_appending(dateval, direction) ==
    IF direction \notin {"begin", "end"}
    THEN Raise("ValueError")
    ELSE IF isinstance(dateval, "str")
         THEN IF Len(dateval.s) >= 10
              THEN Return(PyStr(dateval.s \o " " \o default_time(direction)))
              ELSE Return(PyNone)
         ELSE IF isinstance(dateval, "datetime")
              THEN Return(PyStr(strftime_datetime(dateval)))
              ELSE IF isinstance(dateval, "date")
                   THEN Return(PyStr(strftime_date(dateval) \o " "
                                     \o default_time(direction)))
                   ELSE Return(PyNone)

\* lines 308-330
date2string(dateval, direction) ==
    IF direction \notin {"begin", "end"}
    THEN Raise("ValueError")
    ELSE IF isinstance(dateval, "str")
         THEN IF Len(dateval.s) = 10
              THEN Return(PyStr(dateval.s \o " " \o default_time(direction)))
              ELSE IF Len(dateval.s) > 10
                   THEN Return(PyStr(dateval.s))
                   ELSE Return(PyNone)
         ELSE IF isinstance(dateval, "datetime")
              THEN Return(PyStr(strftime_datetime(dateval)))
              ELSE IF isinstance(dateval, "date")
                   THEN Return(PyStr(strftime_date(dateval) \o " "
                                     \o default_time(direction)))
                   ELSE Return(PyNone)

---------------------------------------------------------------------------
(* get_data: keyword arguments, validation and filter assembly             *)

\* lines 159-190: a local keeps its default unless the keyword was passed
Local(kw, key, default) == IF kw[key] = Absent THEN default ELSE kw[key]

\* str(value) for the values the model passes as property_value
str(v) ==
    IF v.type = "str" THEN v.s
    ELSE IF v.type = "int" THEN Digit(v.n)
    ELSE "None"

bbox_of(kw) == Local(kw, "bbox", PyNone)
temporal_of(kw) == Local(kw, "temporal", PyNone)
property_name_of(kw) == Local(kw, "property_name", PyNone)
property_value_of(kw) ==
    IF kw.property_value = Absent THEN PyNone
    ELSE PyStr(str(kw.property_value))
variables_of(kw) == Local(kw, "variables", PyStr("*"))
sort_property_of(kw) == Local(kw, "sortby", PyNone)
sort_order_of(kw) == Local(kw, "sort_order", PyStr("asc"))

\* a check that only rejects what is too short
bbox_invalid_short(bbox) ==
    ~isinstance(bbox, "list") \/ Len(bbox.items) < 4

\* line 197
bbox_invalid(bbox) ==
    ~isinstance(bbox, "list") \/ Len(bbox.items) # 4
\* a check that only rejects what is too short
temporal_invalid_short(temporal) ==
    ~isinstance(temporal, "list") \/ Len(temporal.items) < 2

\* line 204
temporal_invalid(temporal) ==
    ~isinstance(temporal, "list") \/ Len(temporal.items) # 2
\* a check that also lets the long spelling through
sort_order_invalid_lenient(sort_order) ==
    sort_order \notin {PyStr("asc"), PyStr("desc"), PyStr("descending")}

\* line 215
sort_order_invalid(sort_order) ==
    sort_order \notin {PyStr("asc"), PyStr("desc")}
\* a check that takes any string for a variable name
variables_invalid_strings(vs) ==
    vs # PyStr("*") /\ ~isinstance(vs, "list") /\ ~isinstance(vs, "str")

\* lines 221-222
variables_invalid(vs) ==
    vs # PyStr("*") /\ ~isinstance(vs, "list")

\* lines 196-223: the exception the argument checks raise, "none" if none
ArgumentError(kw) ==
    IF bbox_of(kw) # PyNone /\ bbox_invalid(bbox_of(kw))
    THEN "ValueError"
    ELSE IF temporal_of(kw) # PyNone /\ temporal_invalid(temporal_of(kw))
    THEN "ValueError"
    ELSE IF sort_order_invalid(sort_order_of(kw))
    THEN "ValueError"
    ELSE IF variables_invalid(variables_of(kw))
    THEN "ValueError"
    ELSE "none"

\* the owslib.fes constraint objects get_data builds
PropertyIsEqualTo(name, value) ==
    [op |-> "PropertyIsEqualTo", name |-> name, a |-> value, b |-> PyNone]
BBox(bbox) ==
    [op |-> "BBox", name |-> PyNone, a |-> bbox, b |-> PyNone]
PropertyIsBetween(name, lower, upper) ==
    [op |-> "PropertyIsBetween", name |-> name, a |-> lower, b |-> upper]

\* lines 192-213: the constraints list, in the order it is appended to
Constraints(kw) ==
    (IF property_name_of(kw) # PyNone /\ property_value_of(kw) # PyNone
     THEN <<PropertyIsEqualTo(property_name_of(kw), property_value_of(kw))>>
     ELSE <<>>)
    \o (IF bbox_of(kw) # PyNone THEN <<BBox(bbox_of(kw))>> ELSE <<>>)
    \o (IF temporal_of(kw) # PyNone
        THEN <<PropertyIsBetween(
                 PyStr("instance_datetime"),
                 date2string(temporal_of(kw).items[1], "begin").value,
                 date2string(temporal_of(kw).items[2], "end").value)>>
        ELSE <<>>)

\* lines 225-235: None, the single constraint, or the compound of all
FilterString(constraints) ==
    IF Len(constraints) = 0 THEN PyNone
    ELSE IF Len(constraints) = 1
         THEN [type |-> "filter", op |-> "single", constraints |-> constraints]
         ELSE [type |-> "filter", op |-> "and", constraints |-> constraints]

---------------------------------------------------------------------------
(* get_data: the page loop and the final sort                              *)

\* a GeoJSON feature: the sort reads e['properties'][sort_property]
Feature(id, rank) == [id |-> id, properties |-> [rank |-> rank]]

RECURSIVE Reverse(_)
Reverse(seq) ==
    IF seq = <<>> THEN <<>>
    ELSE Append(Reverse(Tail(seq)), Head(seq))

\* x placed behind every element whose key is not greater than its own
RECURSIVE InsertByKey(_, _, _)
InsertByKey(x, sorted, prop) ==
    IF sorted = <<>> THEN <<x>>
    ELSE IF Head(sorted).properties[prop] <= x.properties[prop]
         THEN <<Head(sorted)>> \o InsertByKey(x, Tail(sorted), prop)
         ELSE <<x>> \o sorted

\* the stable ascending sort of list.sort
RECURSIVE StableSort(_, _)
StableSort(seq, prop) ==
    IF seq = <<>> THEN <<>>
    ELSE InsertByKey(seq[Len(seq)],
                     StableSort(SubSeq(seq, 1, Len(seq) - 1), prop), prop)

\* a descending sort obtained by reversing the ascending one
list_sort_reversed(features, prop, reverse) ==
    IF reverse
    THEN Reverse(StableSort(features, prop))
    ELSE StableSort(features, prop)

\* lines 287-289: list.sort(key=..., reverse=...); a reverse sort is the
\* stable sort of the reversed list, reversed
list_sort(features, prop, reverse) ==
    IF reverse
    THEN Reverse(StableSort(Reverse(features), prop))
    ELSE StableSort(features, prop)

\* lines 282-291: what follows the loop once it is left by break
Finish(fc, sp, sd) ==
    IF fc = PyNone
    THEN Raise("TypeError")
    ELSE IF sp = PyNone
         THEN Return(fc)
         ELSE IF \E i \in 1..Len(fc.features) :
                     sp.s \notin DOMAIN fc.features[i].properties
              THEN Raise("KeyError")
              ELSE Return([fc EXCEPT
                             !.features = list_sort(fc.features, sp.s, sd)])

\* a loop that catches the failure and returns what it has
after_error_partial(fc, sp, sd) ==
    IF fc = PyNone THEN Return(PyNone) ELSE Return(fc)

\* lines 248-254: an exception of getfeature is not caught
after_error(fc, sp, sd) == Raise("TransportError")
\* lines 257-259: a whitespace payload leaves the loop
after_blank(fc, sp, sd) == Finish(fc, sp, sd)
\* a parse failure that hands back the pages parsed before it
after_unparseable_partial(fc, sp, sd) ==
    IF fc = PyNone THEN Return(PyNone) ELSE Return(fc)

\* lines 261-266: a payload json.loads rejects
after_unparseable(fc, sp, sd) == Return(PyNone)

\* an accumulator that puts the new page in front of the earlier ones
accumulate_prepend(fc, features) ==
    IF fc = PyNone THEN features
    ELSE [fc EXCEPT !.features = features.features \o fc.features]

\* lines 272-275: the first page becomes the collection, later ones extend it
accumulate(fc, features) ==
    IF fc = PyNone THEN features
    ELSE [fc EXCEPT !.features = fc.features \o features.features]

\* a loop that is left only by a page of no features
short_page_empty_only(len_features, mf) == len_features = 0

\* line 277: the page is shorter than the requested page size
short_page(len_features, mf) == len_features < mf

\* an offset kept on the client object, where every call finds the value
\* the first call left
next_startindex_shared(si, mf) == startindex + mf

\* an offset that advances by one feature
next_startindex_by_one(si, mf) == si + 1

\* line 280
next_startindex(si, mf) == si + mf

\* the dict json.loads yields for a page of the server's answer
PageDict(srv, fs) ==
    IF srv.reportsCounts
    THEN [type |-> "FeatureCollection", features |-> fs,
          numberMatched |-> srv.total, numberReturned |-> Len(fs)]
    ELSE [type |-> "FeatureCollection", features |-> fs]

\* the values of the property the model's features carry
Ranks == {1, 2}

\* the pages of n features the server may deliver next
Pages(srv, n) ==
    { [i \in 1..n |-> Feature(srv.served + i, ks[i])] :
        ks \in [1..n -> Ranks] }

\* what the server may answer to a page request: a transport failure, a
\* whitespace payload, an empty payload, a payload that is not JSON, or a
\* page of some of the features it has not delivered yet
ServerResponses(srv) ==
    { [kind |-> k, features |-> <<>>] :
        k \in {"error", "blank", "empty", "garbage"} }
    \cup { [kind |-> "json", features |-> fs] :
             fs \in UNION { Pages(srv, n) : n \in 0..(srv.total - srv.served) } }

\* __init__, lines 80-92
DefaultMaxFeatures == 25000
InitMaxFeatures(constraint) ==
    IF constraint = Absent THEN DefaultMaxFeatures ELSE constraint.n

\* the DefaultMaxFeatures constraint of the server: missing, or an integer
ServerConstraints == {Absent} \cup { PyInt(n) : n \in (0 - 1)..MaxLimit }

NoCall == [called |-> FALSE, dateval |-> Absent, direction |-> "",
           outcome |-> Return(NoValue)]

NoKwargs ==
    [bbox |-> Absent, temporal |-> Absent, property_name |-> Absent,
     property_value |-> Absent, variables |-> Absent, sortby |-> Absent,
     sort_order |-> Absent, sort_descending |-> Absent]

\* the locals of a get_data call that has not started, lines 159-171
NoCall2 ==
    [pc |-> "idle", typename |-> "", kwargs |-> NoKwargs,
     variables |-> PyStr("*"), filter_string |-> PyNone,
     sort_property |-> PyNone, sort_descending |-> FALSE, startindex |-> 0,
     feature_collection |-> PyNone, requests |-> <<>>, responses |-> <<>>,
     server |-> [total |-> 0, reportsCounts |-> FALSE, served |-> 0],
     result |-> Return(NoValue)]

Init ==
    /\ maxfeatures \in { InitMaxFeatures(c) : c \in ServerConstraints }
    /\ pc = "idle"
    /\ typename = ""
    /\ kwargs = NoKwargs
    /\ variables = PyStr("*")
    /\ filter_string = PyNone
    /\ sort_property = PyNone
    /\ sort_descending = FALSE
    /\ startindex = 0
    /\ feature_collection = PyNone
    /\ requests = <<>>
    /\ responses = <<>>
    /\ server = [total |-> 0, reportsCounts |-> FALSE, served |-> 0]
    /\ result = Return(NoValue)
    /\ d2s = NoCall
    /\ d2s_again = NoCall
    /\ call2 = NoCall2

\* get_data up to the loop, lines 159-241: the locals are set from the
\* keywords, the arguments are checked, the filter is assembled
GetData(tn, kw, srv) ==
    /\ pc = "idle"
    /\ typename' = tn
    /\ kwargs' = kw
    /\ server' = srv
    /\ startindex' = 0
    /\ feature_collection' = PyNone
    /\ requests' = <<>>
    /\ responses' = <<>>
    /\ IF ArgumentError(kw) # "none"
       THEN /\ pc' = "done"
            /\ result' = Raise(ArgumentError(kw))
            /\ UNCHANGED <<variables, filter_string, sort_property,
                           sort_descending>>
       ELSE /\ pc' = "fetch"
            /\ result' = Return(NoValue)
            /\ variables' = variables_of(kw)
            /\ filter_string' = FilterString(Constraints(kw))
            /\ sort_property' = sort_property_of(kw)
            /\ sort_descending' = (sort_order_of(kw) = PyStr("desc"))
    /\ UNCHANGED <<maxfeatures, d2s, d2s_again, call2>>

\* one iteration of the while loop, lines 244-280, and, when the iteration
\* leaves the loop, the rest of get_data, lines 282-291
FetchPage(resp) ==
    /\ pc = "fetch"
    /\ Len(requests) < MaxRequests
    /\ resp \in ServerResponses(server)
    /\ requests' = Append(requests,
                          [typename |-> typename, startindex |-> startindex,
                           propertyname |-> variables,
                           maxfeatures |-> maxfeatures,
                           filter |-> filter_string])
    /\ responses' = Append(responses, resp)
    /\ server' = [server EXCEPT !.served = @ + Len(resp.features)]
    /\ IF resp.kind = "error"
       THEN /\ pc' = "done"
            /\ result' = after_error(feature_collection, sort_property,
                                     sort_descending)
            /\ UNCHANGED <<feature_collection, startindex>>
       ELSE IF resp.kind = "blank"
       THEN /\ pc' = "done"
            /\ result' = after_blank(feature_collection, sort_property,
                                     sort_descending)
            /\ feature_collection' =
                 IF result'.exc = "none" THEN result'.value
                 ELSE feature_collection
            /\ UNCHANGED startindex
       ELSE IF resp.kind \in {"empty", "garbage"}
       THEN /\ pc' = "done"
            /\ result' = after_unparseable(feature_collection, sort_property,
                                           sort_descending)
            /\ UNCHANGED <<feature_collection, startindex>>
       ELSE LET features == PageDict(server, resp.features)
                fc == accumulate(feature_collection, features)
            IN  IF short_page(Len(features.features), maxfeatures)
                THEN /\ pc' = "done"
                     /\ result' = Finish(fc, sort_property, sort_descending)
                     /\ feature_collection' =
                          IF result'.exc = "none" THEN result'.value ELSE fc
                     /\ UNCHANGED startindex
                ELSE /\ pc' = "fetch"
                     /\ feature_collection' = fc
                     /\ startindex' = next_startindex(startindex, maxfeatures)
                     /\ UNCHANGED result
    /\ UNCHANGED <<maxfeatures, typename, kwargs, variables, filter_string,
                   sort_property, sort_descending, d2s, d2s_again, call2>>

\* a direct call of the module-level function date2string
Date2String(dateval, direction) ==
    /\ pc = "idle"
    /\ pc' = "done"
    /\ d2s' = [called |-> TRUE, dateval |-> dateval, direction |-> direction,
               outcome |-> date2string(dateval, direction)]
    /\ UNCHANGED <<maxfeatures, typename, kwargs, variables, filter_string,
                   sort_property, sort_descending, startindex,
                   feature_collection, requests, responses, server, result,
                   d2s_again, call2>>

\* date2string called on what the direct call returned
Date2StringAgain(direction) ==
    /\ d2s.called
    /\ d2s.outcome.exc = "none"
    /\ ~d2s_again.called
    /\ d2s_again' = [called |-> TRUE, dateval |-> d2s.outcome.value,
                     direction |-> direction,
                     outcome |-> date2string(d2s.outcome.value, direction)]
    /\ UNCHANGED <<maxfeatures, pc, typename, kwargs, variables,
                   filter_string, sort_property, sort_descending, startindex,
                   feature_collection, requests, responses, server, result,
                   d2s, call2>>

\* get_data up to the loop, lines 159-241, as the locals of a second call
\* on the same client
StartCall(tn, kw, srv) ==
    IF ArgumentError(kw) # "none"
    THEN [NoCall2 EXCEPT !.pc = "done", !.typename = tn, !.kwargs = kw,
                         !.server = srv,
                         !.result = Raise(ArgumentError(kw))]
    ELSE [pc |-> "fetch", typename |-> tn, kwargs |-> kw,
          variables |-> variables_of(kw),
          filter_string |-> FilterString(Constraints(kw)),
          sort_property |-> sort_property_of(kw),
          sort_descending |-> (sort_order_of(kw) = PyStr("desc")),
          startindex |-> 0, feature_collection |-> PyNone,
          requests |-> <<>>, responses |-> <<>>, server |-> srv,
          result |-> Return(NoValue)]

\* one iteration of the while loop, lines 244-280, and the rest of get_data
\* when the iteration leaves the loop, on the locals st of a call; mf is
\* self.maxfeatures
LoopStep(st, resp, mf) ==
    LET sent ==
          [st EXCEPT
             !.requests = Append(@, [typename |-> st.typename,
                                     startindex |-> st.startindex,
                                     propertyname |-> st.variables,
                                     maxfeatures |-> mf,
                                     filter |-> st.filter_string]),
             !.responses = Append(@, resp),
             !.server = [@ EXCEPT !.served = @ + Len(resp.features)]]
        ended(res, fc) ==
          [sent EXCEPT !.pc = "done", !.result = res,
                       !.feature_collection = fc]
    IN  IF resp.kind = "error"
        THEN ended(after_error(st.feature_collection, st.sort_property,
                               st.sort_descending),
                   st.feature_collection)
        ELSE IF resp.kind = "blank"
        THEN LET res == after_blank(st.feature_collection, st.sort_property,
                                    st.sort_descending)
             IN  ended(res, IF res.exc = "none" THEN res.value
                            ELSE st.feature_collection)
        ELSE IF resp.kind \in {"empty", "garbage"}
        THEN ended(after_unparseable(st.feature_collection, st.sort_property,
                                     st.sort_descending),
                   st.feature_collection)
        ELSE LET features == PageDict(st.server, resp.features)
                 fc == accumulate(st.feature_collection, features)
                 res == Finish(fc, st.sort_property, st.sort_descending)
             IN  IF short_page(Len(features.features), mf)
                 THEN ended(res, IF res.exc = "none" THEN res.value ELSE fc)
                 ELSE [sent EXCEPT
                         !.feature_collection = fc,
                         !.startindex = next_startindex(st.startindex, mf)]

\* a second get_data call on the same client starts
GetData2(tn, kw, srv) ==
    /\ call2.pc = "idle"
    /\ call2' = StartCall(tn, kw, srv)
    /\ UNCHANGED <<maxfeatures, pc, typename, kwargs, variables,
                   filter_string, sort_property, sort_descending, startindex,
                   feature_collection, requests, responses, server, result,
                   d2s, d2s_again>>

\* the second call requests its next page
FetchPage2(resp) ==
    /\ call2.pc = "fetch"
    /\ Len(call2.requests) < MaxRequests
    /\ resp \in ServerResponses(call2.server)
    /\ call2' = LoopStep(call2, resp, maxfeatures)
    /\ UNCHANGED <<maxfeatures, pc, typename, kwargs, variables,
                   filter_string, sort_property, sort_descending, startindex,
                   feature_collection, requests, responses, server, result,
                   d2s, d2s_again>>

---------------------------------------------------------------------------
(* Inputs and specifications                                               *)

Typenames == {"totalozone"}

\* the result sets a query may match on the server, of at most cap features
Servers(cap) ==
    { [total |-> n, reportsCounts |-> b, served |-> 0] :
        n \in 0..cap, b \in BOOLEAN }

\* the one small result set of the argument specification
ArgsServers == { [total |-> 1, reportsCounts |-> TRUE, served |-> 0] }

\* calls that pass at most a sort property and a sort order, and one
\* filtered call that selects a variable
PagingKwargs ==
    { [NoKwargs EXCEPT !.sortby = sp, !.sort_order = so] :
        sp \in {Absent, PyStr("rank"), PyStr("station")},
        so \in {Absent, PyStr("asc"), PyStr("desc")} }
    \cup { [NoKwargs EXCEPT !.property_name = PyStr("platform_id"),
                            !.property_value = PyInt(7),
                            !.variables = PyList(<<PyStr("o3")>>)] }

Years == {2000, 2011}
Months == {1, 11}
Days == {9, 30}
Hours == {0, 11, 23}
Minutes == {0, 59}
Seconds == {0, 28}

DateObjects == { PyDate(y, m, d) : y \in Years, m \in Months, d \in Days }
DateTimeObjects ==
    { PyDateTime(v.y, v.m, v.d, hh, mm, ss) :
        v \in DateObjects, hh \in Hours, mm \in Minutes, ss \in Seconds }
DateStrings == { PyStr(strftime_date(v)) : v \in DateObjects }
DateTimeStrings == { PyStr(strftime_datetime(v)) : v \in DateTimeObjects }
\* strings that are neither, and values of other types
OtherStrings ==
    { PyStr(""), PyStr("2000-1-1"), PyStr("2000-10-10T02:22:28"),
      PyStr("2000-10-10 02:22"), PyStr("2000/10/10") }
OtherValues == { PyNone, PyInt(0), PyInt(7), PyList(<<>>) }

DateVals ==
    DateObjects \cup DateTimeObjects \cup DateStrings \cup DateTimeStrings
    \cup OtherStrings \cup OtherValues
Directions == {"begin", "end", "middle"}

BboxArgs ==
    { Absent, PyNone, PyStr("-142,42,-53,84"),
      PyList(<<PyInt(4), PyInt(5), PyInt(8)>>),
      PyList(<<PyInt(1), PyInt(4), PyInt(5), PyInt(8)>>),
      PyList(<<PyInt(1), PyInt(4), PyInt(5), PyInt(8), PyInt(9)>>) }
TemporalArgs ==
    { Absent, PyNone, PyStr("2000-11-11/2001-10-30"),
      PyList(<<>>),
      PyList(<<PyStr("2000-11-11")>>),
      PyList(<<PyStr("2000-11-11"), PyStr("2000-11-12"),
               PyStr("2000-11-13")>>),
      PyList(<<PyDate(2000, 11, 11), PyDate(2000, 11, 12)>>),
      PyList(<<PyInt(7), PyNone>>) }
PropertyNameArgs == { Absent, PyStr("platform_id") }
PropertyValueArgs == { Absent, PyNone, PyInt(7) }
VariablesArgs ==
    { Absent, PyStr("*"), PyStr("foo"), PyNone, PyList(<<PyStr("o3")>>) }
SortbyArgs == { Absent, PyStr("rank") }
SortOrderArgs ==
    { Absent, PyStr("desc"), PyStr("descending"), PyStr("true"), PyNone }
SortDescendingArgs == { Absent, PyStr("true") }

AllKwargs ==
    [bbox : BboxArgs, temporal : TemporalArgs,
     property_name : PropertyNameArgs, property_value : PropertyValueArgs,
     variables : VariablesArgs, sortby : SortbyArgs,
     sort_order : SortOrderArgs, sort_descending : SortDescendingArgs]

\* the pagination specification: plain calls, any server behaviour
Next ==
    \/ /\ pc = "idle"
       /\ \E tn \in Typenames, kw \in PagingKwargs, srv \in Servers(MaxTotal) :
             GetData(tn, kw, srv)
    \/ /\ pc = "fetch"
       /\ \E resp \in ServerResponses(server) : FetchPage(resp)

Spec == Init /\ [][Next]_vars

\* the argument specification: every combination of keyword arguments and
\* direct calls of date2string, against a small result set
NextArgs ==
    \/ /\ pc = "idle"
       /\ \E tn \in Typenames, kw \in AllKwargs, srv \in ArgsServers :
             GetData(tn, kw, srv)
    \/ /\ pc = "fetch"
       /\ \E resp \in ServerResponses(server) : FetchPage(resp)
    \/ /\ pc = "idle"
       /\ \E dateval \in DateVals, direction \in Directions :
             Date2String(dateval, direction)
    \/ /\ d2s.called
       /\ \E direction \in Directions : Date2StringAgain(direction)

SpecArgs == Init /\ [][NextArgs]_vars

\* the calls two callers make at once: a sorted one and a filtered one,
\* each against a result set of one feature
ConcKwargs ==
    { [NoKwargs EXCEPT !.sortby = PyStr("rank"), !.sort_order = PyStr("desc")],
      [NoKwargs EXCEPT !.property_name = PyStr("platform_id"),
                       !.property_value = PyInt(7)] }
ConcServers == { [total |-> 1, reportsCounts |-> TRUE, served |-> 0] }

\* the concurrent specification: two get_data calls on one client, their
\* page requests interleaved in any order
NextConc ==
    \/ /\ pc = "idle"
       /\ \E tn \in Typenames, kw \in ConcKwargs, srv \in ConcServers :
             GetData(tn, kw, srv)
    \/ /\ pc = "fetch"
       /\ \E resp \in ServerResponses(server) : FetchPage(resp)
    \/ /\ call2.pc = "idle"
       /\ \E tn \in Typenames, kw \in ConcKwargs, srv \in ConcServers :
             GetData2(tn, kw, srv)
    \/ /\ call2.pc = "fetch"
       /\ \E resp \in ServerResponses(call2.server) : FetchPage2(resp)

SpecConc == Init /\ [][NextConc]_vars

---------------------------------------------------------------------------
(* Pagination                                                              *)

\* the features of the pages answered so far, in arrival order
RECURSIVE Delivered(_)
Delivered(resps) ==
    IF resps = <<>> THEN <<>>
    ELSE Delivered(SubSeq(resps, 1, Len(resps) - 1))
         \o resps[Len(resps)].features

\* response i is a parsed page of exactly n features
PageOfSize(i, n) ==
    responses[i].kind = "json" /\ Len(responses[i].features) = n

\* the final sort cannot read the sort property of some accumulated feature
SortKeyMissing ==
    /\ sort_property # PyNone
    /\ \E i \in 1..Len(Delivered(responses)) :
          sort_property.s \notin DOMAIN Delivered(responses)[i].properties

\* C1: with a positive page size P, once the server has answered n full
\* pages (exactly P features each) and then a page of k < P features, the
\* call has ended after exactly these n+1 requests with n*P + k features
\* accumulated, and returns them (it raises KeyError instead only when the
\* requested sort property is missing from a feature); and while every
\* answer so far is a full page the loop goes on.
ShortPageTermination ==
    /\ \A j \in 1..Len(responses) :
          ( /\ maxfeatures > 0
            /\ \A i \in 1..(j - 1) : PageOfSize(i, maxfeatures)
            /\ responses[j].kind = "json"
            /\ Len(responses[j].features) < maxfeatures )
          => /\ Len(requests) = j
             /\ Len(responses) = j
             /\ pc = "done"
             /\ Len(feature_collection.features)
                  = (j - 1) * maxfeatures + Len(responses[j].features)
             /\ IF SortKeyMissing
                THEN result = Raise("KeyError")
                ELSE /\ result.exc = "none"
                     /\ result.value # PyNone
                     /\ Len(result.value.features)
                          = (j - 1) * maxfeatures + Len(responses[j].features)
    /\ ( /\ maxfeatures > 0
         /\ responses # <<>>
         /\ \A i \in 1..Len(responses) : PageOfSize(i, maxfeatures) )
       => pc = "fetch" /\ Len(requests) = Len(responses)

\* three full pages of one feature, then an empty page: four requests
ShortPageTerminationWitness ==
    /\ pc = "done"
    /\ maxfeatures = 1
    /\ Len(requests) = 4
    /\ \A i \in 1..3 : PageOfSize(i, 1)
    /\ PageOfSize(4, 0)
    /\ result.exc = "none"
    /\ Len(result.value.features) = 3

\* C2: when every response reports numberMatched = N and the first N / P
\* responses are full pages of P features (P > 0 dividing N), no further
\* page request is issued.
MatchCountTermination ==
    \A j \in 1..Len(responses) :
       ( /\ maxfeatures > 0
         /\ server.reportsCounts
         /\ \A i \in 1..j : PageOfSize(i, maxfeatures)
         /\ j * maxfeatures = server.total )
       => Len(requests) <= j

\* C3: a returned Feature Collection has numberReturned equal to the
\* number of its features and numberMatched >= numberReturned.
CountInvariant ==
    ( /\ pc = "done"
      /\ result.exc = "none"
      /\ result.value \notin {PyNone, NoValue} )
    => /\ "numberReturned" \in DOMAIN result.value
       /\ "numberMatched" \in DOMAIN result.value
       /\ result.value.numberReturned = Len(result.value.features)
       /\ result.value.numberMatched >= result.value.numberReturned

\* C4: every loop iteration ends the loop or increases the start offset,
\* and with a non-positive page size no page request is ever issued.
BoundedLoop ==
    [][ /\ pc = "fetch" => (pc' # "fetch" \/ startindex' > startindex)
        /\ maxfeatures <= 0 => requests' = <<>> ]_vars

\* C5: a first page whose payload is not blank and cannot be parsed makes
\* get_data return an empty Feature Collection.
NoResultsIsEmptyCollection ==
    ( /\ pc = "done"
      /\ Len(responses) = 1
      /\ responses[1].kind = "garbage" )
    => /\ result.exc = "none"
       /\ result.value # PyNone
       /\ result.value.type = "FeatureCollection"
       /\ result.value.features = <<>>

\* C6: a failure of getfeature on any page ends the call at that request:
\* the failure is what the caller gets, no value is returned and no
\* further request is issued.
TransportFailureAborts ==
    \A j \in 1..Len(responses) :
       responses[j].kind = "error"
       => /\ Len(responses) = j
          /\ Len(requests) = j
          /\ pc = "done"
          /\ result.exc = "TransportError"
          /\ result.value = NoValue

\* the second request fails after a full first page was accumulated
TransportFailureAbortsWitness ==
    /\ pc = "done"
    /\ Len(responses) = 2
    /\ responses[1].kind = "json"
    /\ responses[2].kind = "error"
    /\ feature_collection # PyNone
    /\ Len(feature_collection.features) = 2
    /\ result = Raise("TransportError")

---------------------------------------------------------------------------
(* Sorting                                                                 *)

\* C9: with a sort property every feature carries, the returned features
\* are a permutation of the delivered ones, non-decreasing in the property
\* for 'asc' and non-increasing for 'desc', and features with equal values
\* keep their arrival order.
SortedResult ==
    ( /\ pc = "done"
      /\ result.exc = "none"
      /\ result.value \notin {PyNone, NoValue}
      /\ sort_property # PyNone )
    => LET fs == result.value.features
           all == Delivered(responses)
           p == sort_property.s
       IN  /\ Len(fs) = Len(all)
           /\ \A i \in 1..Len(all) : \E j \in 1..Len(fs) : fs[j] = all[i]
           /\ \A i, j \in 1..Len(fs) :
                 i < j =>
                   /\ kwargs.sort_order \in {Absent, PyStr("asc")}
                        => fs[i].properties[p] <= fs[j].properties[p]
                   /\ kwargs.sort_order = PyStr("desc")
                        => fs[i].properties[p] >= fs[j].properties[p]
                   /\ fs[i].properties[p] = fs[j].properties[p]
                        => fs[i].id < fs[j].id

\* a descending sort of three features over two pages, with a tie
SortedResultWitness ==
    /\ pc = "done"
    /\ result.exc = "none"
    /\ kwargs.sortby = PyStr("rank")
    /\ kwargs.sort_order = PyStr("desc")
    /\ Len(responses) = 2
    /\ result.value \notin {PyNone, NoValue}
    /\ result.value.features =
         <<Feature(2, 2), Feature(1, 1), Feature(3, 1)>>

---------------------------------------------------------------------------
(* Argument validation                                                     *)

\* C7: a bbox that is given (not None, the code's own "no bbox") and is
\* not a list of exactly 4 components makes get_data raise ValueError
\* without any page request, whatever the other keywords are.
BboxFailFast ==
    ( /\ pc # "idle"
      /\ kwargs.bbox \notin {Absent, PyNone}
      /\ \/ kwargs.bbox.type # "list"
         \/ Len(kwargs.bbox.items) # 4 )
    => /\ pc = "done"
       /\ result = Raise("ValueError")
       /\ requests = <<>>
       /\ responses = <<>>

\* a bbox of five components, passed with other (valid) keywords
BboxFailFastWitness ==
    /\ pc = "done"
    /\ kwargs.bbox.type = "list"
    /\ Len(kwargs.bbox.items) = 5
    /\ kwargs.temporal # Absent
    /\ ArgumentError([kwargs EXCEPT !.bbox = Absent]) = "none"
    /\ result = Raise("ValueError")
    /\ requests = <<>>

---------------------------------------------------------------------------
(* date2string                                                             *)

DigitValue(c) == CHOOSE n \in 0..9 : Digits[n + 1] = c
\* the number a string of decimal digits denotes
RECURSIVE Number(_)
Number(s) ==
    IF Len(s) = 0 THEN 0
    ELSE 10 * Number(SubSeq(s, 1, Len(s) - 1))
         + DigitValue(SubSeq(s, Len(s), Len(s)))

\* s starts with the calendar date of v as YYYY-MM-DD
StartsWithDateOf(s, v) ==
    /\ Len(s) >= 10
    /\ Number(SubSeq(s, 1, 4)) = v.y
    /\ SubSeq(s, 5, 5) = "-"
    /\ Number(SubSeq(s, 6, 7)) = v.m
    /\ SubSeq(s, 8, 8) = "-"
    /\ Number(SubSeq(s, 9, 10)) = v.d

\* C8: a bare date (date object or 10-character string) is rendered as the
\* date followed by ' 00:00:00' for 'begin' and ' 23:59:59' for 'end'; a
\* datetime object or a datetime string keeps its time of day, whatever
\* the direction.
DateNormalization ==
    ( d2s.called /\ d2s.direction \in {"begin", "end"} )
    => LET v == d2s.dateval
           out == d2s.outcome
           t == IF d2s.direction = "begin" THEN " 00:00:00" ELSE " 23:59:59"
       IN  /\ v.type = "date"
                => /\ out.exc = "none"
                   /\ out.value.type = "str"
                   /\ Len(out.value.s) = 19
                   /\ StartsWithDateOf(out.value.s, v)
                   /\ SubSeq(out.value.s, 11, 19) = t
           /\ (v.type = "str" /\ Len(v.s) = 10)
                => out = Return(PyStr(v.s \o t))
           /\ v.type = "datetime"
                => /\ out.exc = "none"
                   /\ out.value.type = "str"
                   /\ Len(out.value.s) = 19
                   /\ StartsWithDateOf(out.value.s, v)
                   /\ SubSeq(out.value.s, 11, 11) = " "
                   /\ Number(SubSeq(out.value.s, 12, 13)) = v.hh
                   /\ SubSeq(out.value.s, 14, 14) = ":"
                   /\ Number(SubSeq(out.value.s, 15, 16)) = v.mm
                   /\ SubSeq(out.value.s, 17, 17) = ":"
                   /\ Number(SubSeq(out.value.s, 18, 19)) = v.ss
           /\ (v.type = "str" /\ Len(v.s) > 10)
                => out = Return(v)

\* date2string(datetime.date(2011, 11, 30), 'end')
DateNormalizationWitness ==
    /\ d2s.called
    /\ d2s.dateval = PyDate(2011, 11, 30)
    /\ d2s.direction = "end"
    /\ d2s.outcome = Return(PyStr("2011-11-30 23:59:59"))

\* an endpoint type date2string does not support
Unsupported(v) == v.type \notin {"str", "date", "datetime"}

\* C10: date2string fails with an argument error on a value that is not a
\* date, a datetime or a string, and get_data with such a temporal
\* endpoint fails before any page request.
UnsupportedEndpointRejected ==
    /\ ( /\ d2s.called
         /\ d2s.direction \in {"begin", "end"}
         /\ Unsupported(d2s.dateval) )
       => d2s.outcome.exc = "ValueError"
    /\ ( /\ pc # "idle"
         /\ kwargs.temporal.type = "list"
         /\ Len(kwargs.temporal.items) = 2
         /\ \E i \in 1..2 : Unsupported(kwargs.temporal.items[i]) )
       => /\ result.exc = "ValueError"
          /\ requests = <<>>

---------------------------------------------------------------------------
(* Argument validation, continued                                          *)

\* the keyword is a list of exactly n components, or not given
ListOfOrMissing(v, n) ==
    \/ v \in {Absent, PyNone}
    \/ v.type = "list" /\ Len(v.items) = n

\* C11: a temporal that is given (not None, the code's own "no temporal")
\* and is not a list of exactly 2 elements makes get_data raise ValueError
\* without any page request.
TemporalFailFast ==
    ( /\ pc # "idle"
      /\ kwargs.temporal \notin {Absent, PyNone}
      /\ \/ kwargs.temporal.type # "list"
         \/ Len(kwargs.temporal.items) # 2 )
    => /\ pc = "done"
       /\ result = Raise("ValueError")
       /\ requests = <<>>
       /\ responses = <<>>

\* a temporal of three elements, every other keyword being acceptable
TemporalFailFastWitness ==
    /\ pc = "done"
    /\ kwargs.temporal.type = "list"
    /\ Len(kwargs.temporal.items) = 3
    /\ kwargs.bbox # Absent
    /\ ArgumentError([kwargs EXCEPT !.temporal = Absent]) = "none"
    /\ result = Raise("ValueError")
    /\ requests = <<>>

\* C12: a sort_order other than 'asc' and 'desc' makes get_data raise
\* ValueError without any page request, with or without a sort property;
\* a call without sort_order is not rejected for its sort order.
SortOrderValidation ==
    /\ ( /\ pc # "idle"
         /\ kwargs.sort_order \notin {Absent, PyStr("asc"), PyStr("desc")} )
       => /\ pc = "done"
          /\ result = Raise("ValueError")
          /\ requests = <<>>
    /\ ( /\ pc # "idle"
         /\ kwargs.sort_order = Absent
         /\ ListOfOrMissing(kwargs.bbox, 4)
         /\ ListOfOrMissing(kwargs.temporal, 2)
         /\ \/ kwargs.variables \in {Absent, PyStr("*")}
            \/ kwargs.variables.type = "list" )
       => result.exc # "ValueError"

\* sort_order='descending' without a sort property, nothing else wrong
SortOrderValidationWitness ==
    /\ pc = "done"
    /\ kwargs.sort_order = PyStr("descending")
    /\ kwargs.sortby = Absent
    /\ ArgumentError([kwargs EXCEPT !.sort_order = Absent]) = "none"
    /\ result = Raise("ValueError")
    /\ requests = <<>>

\* C13: a variables argument that is neither '*' nor a list makes get_data
\* raise ValueError without any page request.
VariablesValidation ==
    ( /\ pc # "idle"
      /\ kwargs.variables \notin {Absent, PyStr("*")}
      /\ kwargs.variables.type # "list" )
    => /\ pc = "done"
       /\ result = Raise("ValueError")
       /\ requests = <<>>
       /\ responses = <<>>

\* variables='foo', nothing else wrong
VariablesValidationWitness ==
    /\ pc = "done"
    /\ kwargs.variables = PyStr("foo")
    /\ ArgumentError([kwargs EXCEPT !.variables = Absent]) = "none"
    /\ result = Raise("ValueError")
    /\ requests = <<>>

\* C14: get_data(dataset, sort_descending='true'), with no other keyword,
\* raises ValueError and issues no page request.
SortDescendingKeywordRejected ==
    ( /\ pc # "idle"
      /\ kwargs = [NoKwargs EXCEPT !.sort_descending = PyStr("true")] )
    => /\ result = Raise("ValueError")
       /\ requests = <<>>

---------------------------------------------------------------------------
(* date2string, continued                                                  *)

\* a date, a datetime, a date string or a datetime string
Supported(v) ==
    \/ v.type \in {"date", "datetime"}
    \/ v.type = "str" /\ Len(v.s) >= 10

\* C15: for a supported value v and directions d1, d2 in {begin, end},
\* date2string(date2string(v, d1), d2) = date2string(v, d1): the string a
\* first call produced is returned unchanged by a second one.
Idempotent ==
    ( /\ d2s_again.called
      /\ d2s.direction \in {"begin", "end"}
      /\ d2s_again.direction \in {"begin", "end"}
      /\ Supported(d2s.dateval) )
    => /\ d2s.outcome.exc = "none"
       /\ d2s.outcome.value.type = "str"
       /\ d2s_again.dateval = d2s.outcome.value
       /\ d2s_again.outcome = d2s.outcome

\* date2string(date2string('2000-11-30', 'begin'), 'end')
IdempotentWitness ==
    /\ d2s_again.called
    /\ d2s.dateval = PyStr("2000-11-30")
    /\ d2s.direction = "begin"
    /\ d2s_again.direction = "end"
    /\ d2s_again.outcome = Return(PyStr("2000-11-30 00:00:00"))

---------------------------------------------------------------------------
(* Pagination, continued                                                   *)

\* C16: a whitespace-only payload ends the call at that request and the
\* call completes normally with what was accumulated (the KeyError of a
\* sort on a missing property apart), also when it is the first payload.
EmptyPayloadTermination ==
    \A j \in 1..Len(responses) :
       responses[j].kind = "blank"
       => /\ Len(responses) = j
          /\ Len(requests) = j
          /\ pc = "done"
          /\ IF SortKeyMissing
             THEN result = Raise("KeyError")
             ELSE /\ result.exc = "none"
                  /\ feature_collection # PyNone
                       => /\ result.value # PyNone
                          /\ Len(result.value.features)
                               = Len(Delivered(responses))

\* C17: the i-th page request of a call (i = 0, 1, ...) asks for offset
\* i * maxfeatures with limit maxfeatures, whatever the pages held, and
\* every request carries the same typename, filter and variables.
OffsetProgression ==
    /\ \A i \in 1..Len(requests) :
          /\ requests[i].startindex = (i - 1) * maxfeatures
          /\ requests[i].maxfeatures = maxfeatures
          /\ requests[i].typename = requests[1].typename
          /\ requests[i].filter = requests[1].filter
          /\ requests[i].propertyname = requests[1].propertyname
    /\ pc = "fetch" => startindex = Len(requests) * maxfeatures

\* a third request at offset 2 of a page size of 1, after a first page
\* that held two features
OffsetProgressionWitness ==
    /\ Len(requests) >= 3
    /\ maxfeatures = 1
    /\ Len(responses[1].features) = 2
    /\ requests[3].startindex = 2

GrowsMonotonically ==
    [][(feature_collection # PyNone /\ pc = "fetch")
       => /\ feature_collection' # PyNone
          /\ Len(feature_collection'.features)
               >= Len(feature_collection.features)
          /\ (sort_property = PyNone
              => SubSeq(feature_collection'.features, 1,
                        Len(feature_collection.features))
                   = feature_collection.features)]_vars

---------------------------------------------------------------------------
(* Filter assembly                                                         *)

\* a keyword argument the caller gave a value
Given(v) == v \notin {Absent, PyNone}

\* the constraints of kind op in a filter, none in an absent filter
OfKind(f, op) ==
    IF f = PyNone THEN {}
    ELSE { i \in 1..Len(f.constraints) : f.constraints[i].op = op }

SuppliedKinds ==
    (IF Given(kwargs.property_name) /\ Given(kwargs.property_value)
     THEN {"PropertyIsEqualTo"} ELSE {})
    \cup (IF Given(kwargs.bbox) THEN {"BBox"} ELSE {})
    \cup (IF Given(kwargs.temporal) THEN {"PropertyIsBetween"} ELSE {})

\* C19: the filter of every request holds exactly one constraint for each
\* supplied kind (attribute equality only when property_name and
\* property_value are both given) and none of another kind; it is None
\* for no constraint, the constraint itself for one, a compound for more.
FilterAssembly ==
    \A i \in 1..Len(requests) :
       LET f == requests[i].filter
       IN  /\ \A op \in {"PropertyIsEqualTo", "BBox", "PropertyIsBetween"} :
                Cardinality(OfKind(f, op))
                  = IF op \in SuppliedKinds THEN 1 ELSE 0
           /\ Cardinality(SuppliedKinds) = 0 => f = PyNone
           /\ Cardinality(SuppliedKinds) = 1
                => f # PyNone /\ f.op = "single"
           /\ Cardinality(SuppliedKinds) >= 2
                => f # PyNone /\ f.op = "and"
           /\ \A j \in OfKind(f, "PropertyIsBetween") :
                f.constraints[j].name = PyStr("instance_datetime")

---------------------------------------------------------------------------
(* Concurrent calls                                                        *)

\* the locals of the first call, as a record
Call1 ==
    [pc |-> pc, typename |-> typename, kwargs |-> kwargs,
     variables |-> variables, filter_string |-> filter_string,
     sort_property |-> sort_property, sort_descending |-> sort_descending,
     startindex |-> startindex, feature_collection |-> feature_collection,
     requests |-> requests, responses |-> responses, server |-> server,
     result |-> result]

\* a call run alone from the locals st against the answers resps
RECURSIVE Replay(_, _)
Replay(st, resps) ==
    IF resps = <<>> THEN st
    ELSE Replay(LoopStep(st, Head(resps), maxfeatures), Tail(resps))

\* what the call c is when it runs alone and gets the answers it got
Alone(c) ==
    Replay(StartCall(c.typename, c.kwargs, [c.server EXCEPT !.served = 0]),
           c.responses)

Offsets(c) == [i \in 1..Len(c.requests) |-> c.requests[i].startindex]

\* C20: with the page requests of two calls interleaved in any order, the
\* offsets each call requests and the collection it returns are those of
\* the call run alone with the same answers.
IndependentCalls ==
    \A c \in {Call1, call2} :
       c.typename # ""
       => /\ Offsets(c) = [i \in 1..Len(c.requests) |-> (i - 1) * maxfeatures]
          /\ Offsets(c) = Offsets(Alone(c))
          /\ c.result = Alone(c).result
          /\ c.feature_collection = Alone(c).feature_collection
          /\ c.filter_string = Alone(c).filter_string

\* both calls are under way at once: each has fetched its first page of
\* one feature under its own filter and is about to request offset 1
IndependentCallsWitness ==
    /\ pc = "fetch"
    /\ call2.pc = "fetch"
    /\ maxfeatures = 1
    /\ Len(requests) = 1
    /\ Len(call2.requests) = 1
    /\ startindex = 1
    /\ call2.startindex = 1
    /\ Len(feature_collection.features) = 1
    /\ Len(call2.feature_collection.features) = 1
    /\ filter_string # call2.filter_string

---------------------------------------------------------------------------
(* Parse failures                                                          *)

\* C21: a payload that is not blank and cannot be parsed ends the call at
\* that request, on a later page as on the first: no further request is
\* issued and the call returns None, never the features of earlier pages.
ParseFailureDiscards ==
    \A j \in 1..Len(responses) :
       responses[j].kind \in {"empty", "garbage"}
       => /\ Len(responses) = j
          /\ Len(requests) = j
          /\ pc = "done"
          /\ result = Return(PyNone)

\* two pages were parsed and accumulated, the third payload was not JSON,
\* and the call returned None
ParseFailureDiscardsWitness ==
    /\ pc = "done"
    /\ Len(responses) = 3
    /\ PageOfSize(1, 1)
    /\ PageOfSize(2, 1)
    /\ responses[3].kind = "garbage"
    /\ feature_collection # PyNone
    /\ Len(feature_collection.features) = 2
    /\ result = Return(PyNone)

=============================================================================
